---- MODULE Spec2Model ----
(***************************************************************************)
(* A model of cryptopuck's encrypt.py: main() driving os.walk,             *)
(* encrypt_file and encrypt_string over a small file system, and           *)
(* encrypt_file's framing of a byte string.                                *)
(*                                                                         *)
(* A path is a sequence of characters, each character a one-token string,  *)
(* so that the program's string operations (+, str.replace, os.path.join)  *)
(* act on it as they do in Python.  The fixed names "filenames_map",       *)
(* "aes_secret", "tmp" and each hex digest are single tokens: the program  *)
(* only ever concatenates them whole.                                      *)
(***************************************************************************)
EXTENDS Integers, Sequences, FiniteSets, TLC

VARIABLES
    \* ---- main() ----
    args_source,        \* args.source
    args_destination,   \* args.destination (<<>> is None / not given)
    public_key,         \* what args.public_key names: "missing", "valid", "malformed"
    fs,                 \* the file system: resolved path -> content record
    fs0,                \* the file system when the run started (history)
    pc,                 \* position of main()
    aes_secret,         \* "none" before line 92, "generated" after
    filenames_map,      \* the dict of line 95: unique_name -> real_filepath
    nsalt,              \* number of os.urandom(16) salts drawn so far
    stack,              \* os.walk: directories still to be listed
    dirpath,            \* os.walk: the directory being iterated
    filenames,          \* os.walk: names of the current directory not yet visited
    call,               \* the arguments of the running encrypt_file call
    encrypted,          \* history: inputs for which encrypt_file has returned
    log,                \* history: the run's phase events, in order
    \* ---- encrypt_file on a byte string ----
    c_pc, c_key, c_iv, c_in, c_chunksize, c_pos, c_out, c_fed, c_prev

mainVars == <<args_source, args_destination, public_key, fs, fs0, pc, aes_secret,
              filenames_map, nsalt, stack, dirpath, filenames, call, encrypted, log>>
cipherVars == <<c_pc, c_key, c_iv, c_in, c_chunksize, c_pos, c_out, c_fed, c_prev>>
vars == <<mainVars, cipherVars>>

(***************************************************************************)
(* Strings and paths                                                       *)
(***************************************************************************)
SEP == "/"

StartsWith(s, p) == Len(p) <= Len(s) /\ SubSeq(s, 1, Len(p)) = p

\* str.replace(old, new): every non-overlapping occurrence, left to right.
RECURSIVE replace(_, _, _)
replace(s, old, new) ==
    IF Len(s) = 0 \/ Len(old) = 0 THEN s
    ELSE IF StartsWith(s, old)
         THEN new \o replace(SubSeq(s, Len(old) + 1, Len(s)), old, new)
         ELSE <<Head(s)>> \o replace(Tail(s), old, new)

\* posixpath.join(a, b)
join(a, b) ==
    IF Len(b) > 0 /\ b[1] = SEP THEN b
    ELSE IF Len(a) = 0 \/ a[Len(a)] = SEP THEN a \o b
    ELSE a \o <<SEP>> \o b

\* What the kernel makes of a path string: repeated separators collapse and
\* trailing ones are dropped.  <<>> is the working directory.
RECURSIVE Collapse(_)
Collapse(s) ==
    IF Len(s) = 0 THEN <<>>
    ELSE IF s[1] = SEP /\ (Len(s) = 1 \/ s[2] = SEP) THEN Collapse(Tail(s))
    ELSE <<s[1]>> \o Collapse(Tail(s))

Resolve(s) ==
    IF Len(s) > 0 /\ s[1] = SEP
    THEN LET r == Collapse(s) IN IF Len(r) > 0 /\ r[1] = SEP THEN r ELSE <<SEP>> \o r
    ELSE Collapse(s)

LastSep(p) ==
    LET I == {i \in 1..Len(p) : p[i] = SEP}
    IN  IF I = {} THEN 0 ELSE CHOOSE i \in I : \A j \in I : j <= i

\* The directory holding the resolved path p, and p's name in it.
Parent(p) ==
    IF LastSep(p) = 0 THEN <<>>
    ELSE IF LastSep(p) = 1 THEN <<SEP>>
    ELSE SubSeq(p, 1, LastSep(p) - 1)

BaseName(p) == SubSeq(p, LastSep(p) + 1, Len(p))

\* The resolved path p lies (at any depth) below the resolved directory root.
IsUnder(p, root) ==
    /\ Len(p) > Len(root) + 1
    /\ SubSeq(p, 1, Len(root)) = root
    /\ p[Len(root) + 1] = SEP

(***************************************************************************)
(* The file system the runs start from                                     *)
(***************************************************************************)
\* Directories: the program creates and removes none.
Dirs == { <<>>, <<SEP>>, <<SEP, "tmp">>, <<"d">>, <<"d", SEP, "s">>, <<"o">> }

\* Files the source tree may hold when the run starts.
CandidateFiles ==
    { <<"d", SEP, "b">>, <<"d", SEP, "d", "b">>, <<"d", SEP, "s", SEP, "b">>,
      <<"d", SEP, "aes_secret">> }

SourceArgs == { <<"d">>, <<"d", SEP>> }

DestinationArgs ==
    { <<>>, <<"d">>, <<"d", SEP>>, <<"d", SEP, "s", SEP>>,
      <<"o", SEP>>, <<"o">>, <<"n", SEP>> }

PublicKeyStates == { "missing", "valid", "malformed" }

Content(kind, src, complete) == [kind |-> kind, src |-> src, complete |-> complete]

NoCall == [in_filename |-> <<>>, out_dir |-> <<>>, out_filename |-> "", ret |-> ""]

Put(f, k, v) == [x \in DOMAIN f \cup {k} |-> IF x = k THEN v ELSE f[x]]
Drop(f, k) == [x \in DOMAIN f \ {k} |-> f[x]]

\* open(path, 'w' / 'wb') succeeds: the directory exists and path is no directory.
CanCreate(p) == Parent(p) \in Dirs /\ p \notin Dirs

CipherIdle ==
    /\ c_pc = "idle" /\ c_key = 0 /\ c_iv = <<>> /\ c_in = <<>> /\ c_chunksize = 0
    /\ c_pos = 0 /\ c_out = <<>> /\ c_fed = <<>> /\ c_prev = <<>>

Init ==
    /\ args_source \in SourceArgs
    /\ args_destination \in DestinationArgs
    /\ public_key \in PublicKeyStates
    /\ \E tree \in SUBSET CandidateFiles :
          fs = [p \in tree |-> Content("clear", p, TRUE)]
    /\ fs0 = fs
    /\ pc = "start"
    /\ aes_secret = "none"
    /\ filenames_map = << >>
    /\ nsalt = 0
    /\ stack = <<>>
    /\ dirpath = <<>>
    /\ filenames = {}
    /\ call = NoCall
    /\ encrypted = {}
    /\ log = <<>>
    /\ CipherIdle

(***************************************************************************)
(* main()                                                                  *)
(***************************************************************************)
json_map_name == "filenames_map"
json_tmp_path == <<SEP, "tmp", SEP, json_map_name>>

\* lines 83-85: os.path.isfile(args.public_key) is false.
PublicKeyNotFound ==
    /\ pc = "start"
    /\ public_key = "missing"
    /\ pc' = "exit"
    /\ UNCHANGED <<args_source, args_destination, public_key, fs, fs0, aes_secret,
                   filenames_map, nsalt, stack, dirpath, filenames, call,
                   encrypted, log,
                   cipherVars>>

\* lines 83-96: the key file exists; default the destination, draw the key,
\* empty the mapping and start os.walk(args.source).
Setup ==
    /\ pc = "start"
    /\ public_key # "missing"
    /\ args_destination' = IF args_destination = <<>> THEN args_source
                           ELSE args_destination
    /\ aes_secret' = "generated"
    /\ filenames_map' = << >>
    /\ stack' = <<args_source>>
    /\ filenames' = {}
    /\ log' = Append(log, <<"KeyGenerated">>)
    /\ pc' = "walk"
    /\ UNCHANGED <<args_source, public_key, fs, fs0, nsalt, dirpath, call, encrypted,
                   cipherVars>>

\* The orders a directory listing can come in.
Orders(S) == { q \in [1..Cardinality(S) -> S] : \A x \in S : \E i \in DOMAIN q : q[i] = x }

\* line 96, os.walk (top-down): list the next directory as it is now; its
\* sub-directories are walked after its files, before the rest of the stack.
WalkDir ==
    /\ pc = "walk"
    /\ filenames = {}
    /\ stack # <<>>
    /\ LET top == Head(stack)
           here == Resolve(top)
           subs == { join(top, BaseName(d)) : d \in { x \in Dirs : x # here /\ Len(x) > 0 /\ Parent(x) = here } }
       IN  /\ dirpath' = top
           /\ filenames' = { BaseName(p) : p \in { x \in DOMAIN fs : Parent(x) = here } }
           /\ \E q \in Orders(subs) : stack' = q \o Tail(stack)
    /\ UNCHANGED <<args_source, args_destination, public_key, fs, fs0, pc, aes_secret,
                   filenames_map, nsalt, call, encrypted, log,
                   cipherVars>>

\* line 104: hashlib.sha512(salted_path).hexdigest().  The salt is 16 fresh
\* random bytes, so the digest is a name no earlier call produced.
sha512_hexdigest(salt, real_filepath) == "h" \o ToString(salt)

\* BeginFile, were lines 111-113 placed before the call of encrypt_file.
BeginFileRemoving(name) ==
    LET filename == join(dirpath, name)
        real_filepath == replace(filename, args_source, <<>>)
        unique_name == sha512_hexdigest(nsalt, real_filepath)
    IN  /\ pc = "walk"
        /\ name \in filenames
        /\ filenames' = filenames \ {name}
        /\ nsalt' = nsalt + 1
        /\ filenames_map' = Put(filenames_map, unique_name, real_filepath)
        /\ call' = [in_filename |-> filename, out_dir |-> args_destination,
                    out_filename |-> unique_name, ret |-> "remove"]
        /\ log' = Append(log, <<"begin", Resolve(filename)>>)
        /\ fs' = IF args_source = args_destination THEN Drop(fs, Resolve(filename)) ELSE fs
        /\ pc' = "encrypt_open"
        /\ UNCHANGED <<args_source, args_destination, public_key, fs0, aes_secret,
                       stack, dirpath, encrypted,
                   cipherVars>>

\* lines 97-108: the next name of the current directory: its real path, its
\* obscured name, the mapping entry, and the call of encrypt_file.
BeginFile(name) ==
    LET filename == join(dirpath, name)
        real_filepath == replace(filename, args_source, <<>>)
        unique_name == sha512_hexdigest(nsalt, real_filepath)
    IN  /\ pc = "walk"
        /\ name \in filenames
        /\ filenames' = filenames \ {name}
        /\ nsalt' = nsalt + 1
        /\ filenames_map' = Put(filenames_map, unique_name, real_filepath)
        /\ call' = [in_filename |-> filename, out_dir |-> args_destination,
                    out_filename |-> unique_name, ret |-> "remove"]
        /\ log' = Append(log, <<"begin", Resolve(filename)>>)
        /\ pc' = "encrypt_open"
        /\ UNCHANGED <<args_source, args_destination, public_key, fs, fs0, aes_secret,
                       stack, dirpath, encrypted,
                   cipherVars>>

\* WalkDone, were line 116 reached after the first directory that runs out of
\* names instead of after the whole walk.
WalkDoneAfterOneDirectory ==
    /\ pc = "walk"
    /\ filenames = {}
    /\ dirpath # <<>>
    /\ pc' = "serialize"
    /\ UNCHANGED <<args_source, args_destination, public_key, fs, fs0, aes_secret,
                   filenames_map, nsalt, stack, dirpath, filenames, call, encrypted, log,
                   cipherVars>>

\* line 96: os.walk is exhausted; go on to line 116.
WalkDone ==
    /\ pc = "walk"
    /\ filenames = {}
    /\ stack = <<>>
    /\ pc' = "serialize"
    /\ UNCHANGED <<args_source, args_destination, public_key, fs, fs0, aes_secret,
                   filenames_map, nsalt, stack, dirpath, filenames, call, encrypted, log,
                   cipherVars>>

(***************************************************************************)
(* encrypt_file(key, in_filename, out_dir, out_filename), as main() sees   *)
(* it: what it does to the file system.  Its bytes are modelled below.     *)
(***************************************************************************)
InPath == Resolve(call.in_filename)
\* line 36: out_dir + out_filename, a plain string concatenation.
OutPath == Resolve(call.out_dir \o <<call.out_filename>>)

\* lines 33-38: getsize and open the input, create the output, write the
\* header and the IV.
EncryptOpen ==
    /\ pc = "encrypt_open"
    /\ InPath \in DOMAIN fs
    /\ CanCreate(OutPath)
    /\ fs' = Put(fs, OutPath, Content("enc", InPath, FALSE))
    /\ pc' = "encrypt_write"
    /\ UNCHANGED <<args_source, args_destination, public_key, fs0, aes_secret,
                   filenames_map, nsalt, stack, dirpath, filenames, call, encrypted, log,
                   cipherVars>>

\* lines 33-36 raise: the input is missing or unreadable, or the output
\* cannot be created.  Nothing has been written; main() dies of the exception.
EncryptOpenFails ==
    /\ pc = "encrypt_open"
    /\ pc' = "failed"
    /\ UNCHANGED <<args_source, args_destination, public_key, fs, fs0, aes_secret,
                   filenames_map, nsalt, stack, dirpath, filenames, call, encrypted, log,
                   cipherVars>>

\* What the return of encrypt_file adds to the run's history.
Returned(ret, in) ==
    IF ret = "remove" THEN <<"end", in>> ELSE <<"MappingPersisted">>

\* lines 40-47: every chunk is read, encrypted and written; the files close
\* and encrypt_file returns to its caller.
EncryptWrite ==
    /\ pc = "encrypt_write"
    /\ fs' = Put(fs, OutPath, Content("enc", InPath, TRUE))
    /\ encrypted' = encrypted \cup {InPath}
    /\ log' = Append(log, Returned(call.ret, InPath))
    /\ pc' = call.ret
    /\ UNCHANGED <<args_source, args_destination, public_key, fs0, aes_secret,
                   filenames_map, nsalt, stack, dirpath, filenames, call,
                   cipherVars>>

\* lines 41-47 raise (a read or a write fails): the output stays as far as
\* it was written.
EncryptWriteFails ==
    /\ pc = "encrypt_write"
    /\ pc' = "failed"
    /\ UNCHANGED <<args_source, args_destination, public_key, fs, fs0, aes_secret,
                   filenames_map, nsalt, stack, dirpath, filenames, call, encrypted, log,
                   cipherVars>>

\* line 111-112: the test that guards os.remove(filename).
RemovesOriginal == args_source = args_destination /\ InPath \in DOMAIN fs

\* lines 111-113, the test holds and os.remove succeeds.
RemoveOriginal ==
    /\ pc = "remove"
    /\ RemovesOriginal
    /\ fs' = Drop(fs, InPath)
    /\ pc' = "walk"
    /\ UNCHANGED <<args_source, args_destination, public_key, fs0, aes_secret,
                   filenames_map, nsalt, stack, dirpath, filenames, call, encrypted, log,
                   cipherVars>>

\* line 113 raises.
RemoveOriginalFails ==
    /\ pc = "remove"
    /\ RemovesOriginal
    /\ pc' = "failed"
    /\ UNCHANGED <<args_source, args_destination, public_key, fs, fs0, aes_secret,
                   filenames_map, nsalt, stack, dirpath, filenames, call, encrypted, log,
                   cipherVars>>

\* lines 111-112, the test fails: the original stays.
KeepOriginal ==
    /\ pc = "remove"
    /\ ~RemovesOriginal
    /\ pc' = "walk"
    /\ UNCHANGED <<args_source, args_destination, public_key, fs, fs0, aes_secret,
                   filenames_map, nsalt, stack, dirpath, filenames, call, encrypted, log,
                   cipherVars>>

\* lines 116-122: dump the mapping to /tmp/filenames_map and call encrypt_file on it.
Serialize ==
    /\ pc = "serialize"
    /\ CanCreate(Resolve(json_tmp_path))
    /\ fs' = Put(fs, Resolve(json_tmp_path), Content("json", <<>>, TRUE))
    /\ call' = [in_filename |-> json_tmp_path, out_dir |-> args_destination,
                out_filename |-> json_map_name, ret |-> "rmtmp"]
    /\ pc' = "encrypt_open"
    /\ UNCHANGED <<args_source, args_destination, public_key, fs0, aes_secret,
                   filenames_map, nsalt, stack, dirpath, filenames, encrypted, log,
                   cipherVars>>

\* lines 119-120 raise: open fails (nothing is created) or json.dump fails
\* (the file is left part-written).
SerializeFails ==
    /\ pc = "serialize"
    /\ \E created \in BOOLEAN :
          fs' = IF created
                THEN Put(fs, Resolve(json_tmp_path), Content("json", <<>>, FALSE))
                ELSE fs
    /\ pc' = "failed"
    /\ UNCHANGED <<args_source, args_destination, public_key, fs0, aes_secret,
                   filenames_map, nsalt, stack, dirpath, filenames, call, encrypted, log,
                   cipherVars>>

\* lines 124-125: remove the cleartext mapping if it exists.
RemoveTmp ==
    /\ pc = "rmtmp"
    /\ fs' = IF Resolve(json_tmp_path) \in DOMAIN fs
             THEN Drop(fs, Resolve(json_tmp_path)) ELSE fs
    /\ pc' = "wrap_open"
    /\ UNCHANGED <<args_source, args_destination, public_key, fs0, aes_secret,
                   filenames_map, nsalt, stack, dirpath, filenames, call, encrypted, log,
                   cipherVars>>

\* line 125 raises.
RemoveTmpFails ==
    /\ pc = "rmtmp"
    /\ Resolve(json_tmp_path) \in DOMAIN fs
    /\ pc' = "failed"
    /\ UNCHANGED <<args_source, args_destination, public_key, fs, fs0, aes_secret,
                   filenames_map, nsalt, stack, dirpath, filenames, call, encrypted, log,
                   cipherVars>>

\* line 128: args.destination + "aes_secret", a plain string concatenation.
KeyPath == Resolve(args_destination \o <<"aes_secret">>)

\* line 128: the key file is opened (created, truncated) before line 129 runs.
WrapOpen ==
    /\ pc = "wrap_open"
    /\ CanCreate(KeyPath)
    /\ fs' = Put(fs, KeyPath, Content("key", <<>>, FALSE))
    /\ pc' = "wrap_write"
    /\ UNCHANGED <<args_source, args_destination, public_key, fs0, aes_secret,
                   filenames_map, nsalt, stack, dirpath, filenames, call, encrypted, log,
                   cipherVars>>

\* line 128 raises.
WrapOpenFails ==
    /\ pc = "wrap_open"
    /\ pc' = "failed"
    /\ UNCHANGED <<args_source, args_destination, public_key, fs, fs0, aes_secret,
                   filenames_map, nsalt, stack, dirpath, filenames, call, encrypted, log,
                   cipherVars>>

\* line 129, encrypt_string (lines 60-65): the key is imported, the secret
\* sealed and written; main() returns.
WrapWrite ==
    /\ pc = "wrap_write"
    /\ public_key = "valid"
    /\ fs' = Put(fs, KeyPath, Content("key", <<>>, TRUE))
    /\ log' = Append(log, <<"KeyWrapped">>)
    /\ pc' = "done"
    /\ UNCHANGED <<args_source, args_destination, public_key, fs0, aes_secret,
                   filenames_map, nsalt, stack, dirpath, filenames, call, encrypted,
                   cipherVars>>

\* line 129 raises: RSA.importKey rejects the key file, the sealing or the
\* write fails.  The key file stays as line 128 left it.
WrapWriteFails ==
    /\ pc = "wrap_write"
    /\ pc' = "failed"
    /\ UNCHANGED <<args_source, args_destination, public_key, fs, fs0, aes_secret,
                   filenames_map, nsalt, stack, dirpath, filenames, call, encrypted, log,
                   cipherVars>>

Next ==
    \/ PublicKeyNotFound
    \/ Setup
    \/ WalkDir
    \/ \E name \in filenames : BeginFile(name)
    \/ WalkDone
    \/ EncryptOpen
    \/ EncryptOpenFails
    \/ EncryptWrite
    \/ EncryptWriteFails
    \/ RemoveOriginal
    \/ RemoveOriginalFails
    \/ KeepOriginal
    \/ Serialize
    \/ SerializeFails
    \/ RemoveTmp
    \/ RemoveTmpFails
    \/ WrapOpen
    \/ WrapOpenFails
    \/ WrapWrite
    \/ WrapWriteFails

Spec == Init /\ [][Next]_vars

\* The run has stopped: main() returned, called sys.exit(1), or died of an exception.
Stopped == pc \in {"done", "exit", "failed"}

(***************************************************************************)
(* Properties of main()                                                    *)
(***************************************************************************)
\* The directory the destination argument names (the source when none is given).
DestinationRoot ==
    Resolve(IF args_destination = <<>> THEN args_source ELSE args_destination)
SourceRoot == Resolve(args_source)
TmpPath == Resolve(json_tmp_path)
MapPath == Resolve(args_destination \o <<json_map_name>>)

\* The original k is where and what it was when the run started.
StillPresent(k) == k \in DOMAIN fs /\ fs[k] = fs0[k]
\* Some file holds the complete encryption of k.
HasEncryptedCopy(k) == \E p \in DOMAIN fs : fs[p] = Content("enc", k, TRUE)

\* C1: an original is gone only after encrypt_file returned for that same
\* file and its complete encrypted output is on disk; when the run has died
\* in the encryption of file k, file k is still present.
DeletionSafety ==
    /\ \A k \in DOMAIN fs0 :
          StillPresent(k) \/ (k \in encrypted /\ HasEncryptedCopy(k))
    /\ (pc = "failed" /\ call.ret = "remove" /\ InPath \notin encrypted
          /\ InPath \in DOMAIN fs0) => StillPresent(InPath)

\* C1's case: the run died encrypting one original after deleting another.
DeletionSafetyWitness ==
    /\ pc = "failed" /\ call.ret = "remove"
    /\ InPath \in DOMAIN fs0 /\ InPath \notin encrypted /\ StillPresent(InPath)
    /\ \E j \in DOMAIN fs0 : j \notin DOMAIN fs /\ j \in encrypted

Rank(e) ==
    CASE e[1] = "KeyGenerated" -> 1
      [] e[1] \in {"begin", "end"} -> 2
      [] e[1] = "MappingPersisted" -> 3
      [] e[1] = "KeyWrapped" -> 4

Happened(e) == \E i \in DOMAIN log : log[i] = e

\* C6: the phases come in the order KeyGenerated, files, MappingPersisted,
\* KeyWrapped, each of the three once; a file's encryption returns before the
\* next file begins; the mapping is encrypted only when the walk has nothing
\* left; a run that reaches Done has written both artifacts.
PhaseOrder ==
    /\ (pc \in {"start", "exit"}) = (log = <<>>)
    /\ log # <<>> => log[1] = <<"KeyGenerated">>
    /\ \A i, j \in DOMAIN log : i < j =>
          /\ Rank(log[i]) <= Rank(log[j])
          /\ Rank(log[i]) = Rank(log[j]) => Rank(log[i]) = 2
    /\ \A i \in DOMAIN log :
          /\ log[i][1] = "end" => i > 1 /\ log[i - 1] = <<"begin", log[i][2]>>
          /\ (log[i][1] = "begin" /\ i < Len(log)) => log[i + 1] = <<"end", log[i][2]>>
    /\ Happened(<<"MappingPersisted">>) =>
          /\ filenames = {} /\ stack = <<>>
          /\ \A i \in DOMAIN log : log[i][1] = "begin" => log[i][2] \in encrypted
    /\ Happened(<<"KeyWrapped">>) => Happened(<<"MappingPersisted">>)
    /\ pc = "done" =>
          /\ Happened(<<"KeyWrapped">>)
          /\ MapPath \in DOMAIN fs /\ fs[MapPath] = Content("enc", TmpPath, TRUE)
          /\ KeyPath \in DOMAIN fs /\ fs[KeyPath] = Content("key", <<>>, TRUE)

\* C6's case: a finished run that encrypted files of two directories.
PhaseOrderWitness ==
    /\ pc = "done"
    /\ \E i, j \in DOMAIN log :
          /\ log[i][1] = "end" /\ log[j][1] = "end"
          /\ Parent(log[i][2]) # Parent(log[j][2])

\* The mapping has been serialized (line 120 has run).
Serialized == call.ret = "rmtmp"

StripSep(s) == IF Len(s) > 0 /\ s[1] = SEP THEN Tail(s) ELSE s
\* The path of the resolved file p relative to the source root.
RelativePath(p) == SubSeq(p, Len(SourceRoot) + 2, Len(p))

\* C4: the serialized mapping has one entry per file of the source tree, and
\* its values are exactly the files' paths relative to the source root, each
\* once (a leading separator in a recorded path is let pass).
MappingComplete ==
    Serialized =>
        /\ Cardinality(DOMAIN filenames_map) = Cardinality(DOMAIN fs0)
        /\ { StripSep(filenames_map[u]) : u \in DOMAIN filenames_map }
             = { RelativePath(p) : p \in DOMAIN fs0 }

\* The run was started with a configuration error.
ConfigurationError == public_key = "missing" \/ DestinationRoot \notin Dirs

\* C5: a run started with a configuration error touches no file, draws no
\* key and does not get past the check.
FailFast ==
    ConfigurationError =>
        /\ fs = fs0
        /\ aes_secret = "none"
        /\ pc \in {"start", "exit"}

\* C7: every encrypted file, the encrypted mapping and the wrapped key are
\* direct children of the destination root, named by the pseudonym, by
\* filenames_map and by aes_secret.
OutputPlacement ==
    \A p \in DOMAIN fs \ DOMAIN fs0 :
        fs[p].kind \in {"enc", "key"} =>
            /\ Parent(p) = DestinationRoot
            /\ fs[p].kind = "key" => BaseName(p) = <<"aes_secret">>
            /\ (fs[p].kind = "enc" /\ fs[p].src = TmpPath) => BaseName(p) = <<json_map_name>>
            /\ (fs[p].kind = "enc" /\ fs[p].src # TmpPath) =>
                  \E u \in DOMAIN filenames_map : BaseName(p) = <<u>>

SameDirectory == SourceRoot = DestinationRoot

\* C8: with the destination the source directory, a finished run has deleted
\* every original; with another destination, no file under the source root
\* is created, changed or deleted.
DeletionIffSameDirectory ==
    /\ (pc = "done" /\ SameDirectory) => \A k \in DOMAIN fs0 : k \notin DOMAIN fs
    /\ ~SameDirectory =>
          \A p \in DOMAIN fs \cup DOMAIN fs0 :
              IsUnder(p, SourceRoot) => p \in DOMAIN fs0 /\ StillPresent(p)

KeyArtifactWritten == KeyPath \in DOMAIN fs /\ fs[KeyPath] = Content("key", <<>>, TRUE)
MappingArtifactWritten ==
    MapPath \in DOMAIN fs /\ fs[MapPath] = Content("enc", TmpPath, TRUE)

\* C9: a stopped run that has deleted an original has written the wrapped
\* key and the encrypted mapping.
NoUnrecoverableState ==
    (Stopped /\ \E k \in DOMAIN fs0 : k \notin DOMAIN fs) =>
        KeyArtifactWritten /\ MappingArtifactWritten

\* C10: the cleartext mapping file exists only after serialization, never
\* in a stopped run, and never together with the key file.
CleartextMappingTransient ==
    /\ TmpPath \in DOMAIN fs => Serialized
    /\ Stopped => TmpPath \notin DOMAIN fs
    /\ (KeyPath \in DOMAIN fs /\ fs[KeyPath].kind = "key") => TmpPath \notin DOMAIN fs

(***************************************************************************)
(* encrypt_file on a byte string: lines 31-47                              *)
(***************************************************************************)
BlockSize == 16
PadByte == 32

\* The longest input, the largest chunksize (in blocks) and the most
\* trailing bytes of an input that equal the padding byte.
MaxLen == 33
MaxChunkBlocks == 2
MaxTail == 2

RECURSIVE Xor(_, _)
Xor(a, b) ==
    IF a = 0 THEN b
    ELSE IF b = 0 THEN a
    ELSE ((a + b) % 2) + 2 * Xor(a \div 2, b \div 2)

XorBlock(x, y) == [i \in 1..BlockSize |-> Xor(x[i], y[i])]

\* The block cipher under a key: a keyed permutation of the 16-byte blocks
\* (of AES only that is used: one block in, one block out, invertible).
AES_encrypt_block(key, block) ==
    [i \in 1..BlockSize |-> (5 * block[i] + key + i) % 256]
AES_decrypt_block(key, block) ==
    [i \in 1..BlockSize |-> (205 * (block[i] + 512 - key - i)) % 256]

\* encryptor.encrypt(data) in CBC mode, chained from the block prev.
RECURSIVE cbc_encrypt(_, _, _)
cbc_encrypt(key, prev, data) ==
    IF Len(data) = 0 THEN <<>>
    ELSE LET c == AES_encrypt_block(key, XorBlock(SubSeq(data, 1, BlockSize), prev))
         IN  c \o cbc_encrypt(key, c, SubSeq(data, BlockSize + 1, Len(data)))

\* A fresh encryptor for every chunk: the chain restarts from the IV.
chain_restarted(iv, prev, ciphertext) == iv

\* The encryptor of line 32 lives across the loop: the next chunk is chained
\* from the last ciphertext block written.
chain(iv, prev, ciphertext) ==
    IF Len(ciphertext) = 0 THEN prev
    ELSE SubSeq(ciphertext, Len(ciphertext) - BlockSize + 1, Len(ciphertext))

\* The `width` low bytes of n, least significant first.
RECURSIVE little_endian(_, _)
little_endian(n, width) ==
    IF width = 0 THEN <<>> ELSE <<n % 256>> \o little_endian(n \div 256, width - 1)

\* struct.pack('<Q', n)
pack_Q(n) == little_endian(n, 8)

\* infile.read(n) at offset pos of a regular file
read(data, pos, n) ==
    SubSeq(data, pos + 1, IF pos + n < Len(data) THEN pos + n ELSE Len(data))

\* Padding that always adds 1..16 bytes, a whole block to an aligned chunk.
pad_always(chunk) ==
    chunk \o [i \in 1..(BlockSize - (Len(chunk) % BlockSize)) |-> PadByte]

\* lines 44-45
pad(chunk) ==
    IF Len(chunk) % BlockSize # 0
    THEN chunk \o [i \in 1..(BlockSize - (Len(chunk) % BlockSize)) |-> PadByte]
    ELSE chunk

\* The inputs: a body of one of two byte patterns, then `tail` bytes equal
\* to the padding byte.
InputBytes(len, tail, pattern) ==
    [i \in 1..len |->
        IF i > len - tail THEN PadByte
        ELSE IF pattern = 0 THEN 65 ELSE (37 * i + 11) % 256]

Inputs ==
    { InputBytes(len, tail, pattern) :
        len \in 0..MaxLen, tail \in 0..MaxTail, pattern \in {0, 1} }

\* line 6: the default chunksize, the one main() runs with.
DefaultChunkSize == 64 * 1024
ChunkSizes == { BlockSize * k : k \in 1..MaxChunkBlocks } \cup { DefaultChunkSize }
Keys == { 7, 200 }
IVs == { [i \in 1..BlockSize |-> 0], [i \in 1..BlockSize |-> (16 * i + 3) % 256] }

InitCipher ==
    /\ c_pc = "start"
    /\ c_key \in Keys
    /\ c_in \in Inputs
    /\ c_chunksize \in ChunkSizes
    /\ c_iv = <<>> /\ c_prev = <<>> /\ c_out = <<>> /\ c_fed = <<>>
    /\ c_pos = 0
    /\ args_source = <<>> /\ args_destination = <<>> /\ public_key = "valid"
    /\ fs = << >> /\ fs0 = << >> /\ pc = "encrypt_file" /\ aes_secret = "generated"
    /\ filenames_map = << >> /\ nsalt = 0 /\ stack = <<>> /\ dirpath = <<>>
    /\ filenames = {} /\ call = NoCall /\ encrypted = {} /\ log = <<>>

\* lines 31-38: the IV, the encryptor, the size; the header and the IV are written.
CipherStart ==
    /\ c_pc = "start"
    /\ \E iv \in IVs :
          /\ c_iv' = iv
          /\ c_prev' = iv
          /\ c_out' = pack_Q(Len(c_in)) \o iv
    /\ c_pc' = "loop"
    /\ UNCHANGED <<c_key, c_in, c_chunksize, c_pos, c_fed, mainVars>>

\* lines 41, 44-47: a chunk is read, padded if its length is no multiple of
\* 16, encrypted and written.
ReadChunk ==
    /\ c_pc = "loop"
    /\ LET chunk == read(c_in, c_pos, c_chunksize)
           padded == pad(chunk)
           ciphertext == cbc_encrypt(c_key, c_prev, padded)
       IN  /\ Len(chunk) # 0
           /\ c_pos' = c_pos + Len(chunk)
           /\ c_fed' = c_fed \o padded
           /\ c_out' = c_out \o ciphertext
           /\ c_prev' = chain(c_iv, c_prev, ciphertext)
    /\ UNCHANGED <<c_pc, c_key, c_iv, c_in, c_chunksize, mainVars>>

\* lines 41-43: the read returns nothing; the loop ends and the files close.
EndOfFile ==
    /\ c_pc = "loop"
    /\ Len(read(c_in, c_pos, c_chunksize)) = 0
    /\ c_pc' = "done"
    /\ UNCHANGED <<c_key, c_iv, c_in, c_chunksize, c_pos, c_out, c_fed, c_prev, mainVars>>

NextCipher == CipherStart \/ ReadChunk \/ EndOfFile

SpecCipher == InitCipher /\ [][NextCipher]_vars

\* The decryptor the format is made for: read the length and the IV,
\* CBC-decrypt the rest, keep the first `length` bytes.
RECURSIVE cbc_decrypt(_, _, _)
cbc_decrypt(key, prev, data) ==
    IF Len(data) = 0 THEN <<>>
    ELSE LET c == SubSeq(data, 1, BlockSize)
         IN  XorBlock(AES_decrypt_block(key, c), prev)
               \o cbc_decrypt(key, c, SubSeq(data, BlockSize + 1, Len(data)))

RECURSIVE unpack_Q(_)
unpack_Q(bytes) ==
    IF Len(bytes) = 0 THEN 0 ELSE Head(bytes) + 256 * unpack_Q(Tail(bytes))

decryptStream(key, stream) ==
    LET length == unpack_Q(SubSeq(stream, 1, 8))
        iv == SubSeq(stream, 9, 24)
        clear == cbc_decrypt(key, iv, SubSeq(stream, 25, Len(stream)))
    IN  SubSeq(clear, 1, length)

(***************************************************************************)
(* Properties of encrypt_file                                              *)
(***************************************************************************)
RoundUp(n) == ((n + BlockSize - 1) \div BlockSize) * BlockSize

\* C2: the output is 8 bytes holding the input's length, least significant
\* byte first (for the lengths checked, all below 2^24, the upper five bytes
\* are zero), the 16 bytes of the IV, and ceil(L/16)*16 bytes of
\* ciphertext; the ciphertext written so far is always whole blocks.
Framing ==
    /\ c_pc \in {"loop", "done"} =>
          /\ Len(c_out) >= 24
          /\ (Len(c_out) - 24) % BlockSize = 0
          /\ \A i \in 1..8 : c_out[i] \in 0..255
          /\ c_out[1] + 256 * c_out[2] + 65536 * c_out[3] = Len(c_in)
          /\ \A i \in 4..8 : c_out[i] = 0
          /\ SubSeq(c_out, 9, 24) = c_iv
    /\ c_pc = "done" => Len(c_out) = 24 + RoundUp(Len(c_in))

\* C2's case: an input of two whole blocks, read one block at a time.
FramingWitness ==
    /\ c_pc = "done"
    /\ Len(c_in) = 2 * BlockSize
    /\ c_chunksize = BlockSize
    /\ Len(c_out) = 24 + 2 * BlockSize

\* C3: the encryptor was fed the input followed by fewer than 16 padding
\* bytes and nothing else, the header holds the input's length, and the
\* decryptor gives the input back.
RoundTrip ==
    c_pc = "done" =>
        /\ Len(c_fed) >= Len(c_in) /\ Len(c_fed) < Len(c_in) + BlockSize
        /\ SubSeq(c_fed, 1, Len(c_in)) = c_in
        /\ \A i \in (Len(c_in) + 1)..Len(c_fed) : c_fed[i] = PadByte
        /\ unpack_Q(SubSeq(c_out, 1, 8)) = Len(c_in)
        /\ decryptStream(c_key, c_out) = c_in

\* C3's case: an input longer than a chunk, not block-aligned, ending in the
\* padding byte.
RoundTripWitness ==
    /\ c_pc = "done"
    /\ Len(c_in) > c_chunksize
    /\ Len(c_in) % BlockSize # 0
    /\ c_in[Len(c_in)] = PadByte
    /\ decryptStream(c_key, c_out) = c_in

====
